---- MODULE Spec2Model ----
(***************************************************************************)
(* Model of the self-evolving tool runtime of Seismic_data_retrieval_agent *)
(*   tool_runtime/parser.py    the code validator and register_dynamic_tool *)
(*   tool_runtime/registry.py  the tool catalog, its metadata and bootstrap *)
(*   tool_runtime/sandbox.py   run_in_sandbox                               *)
(*   main_self_evolving.py     call_tool                                    *)
(*                                                                         *)
(* A Python dict is a TLA+ function whose DOMAIN is the set of its keys.    *)
(* A tool name is a sequence of text fragments; the fragment "tool_" is the *)
(* file-name prefix, so that <<"tool_", "add">> is the name "tool_add".     *)
(* A candidate source is its normalised size plus the nodes of its syntax   *)
(* tree: the top-level statements in order (the first level ast.walk        *)
(* meets) followed by the nodes below them in breadth-first order.          *)
(***************************************************************************)
EXTENDS Integers, Sequences, FiniteSets, TLC

VARIABLES
    _tool_registry,   \* registry.py:10  name -> callable
    _tool_meta,       \* registry.py:11  name -> metadata dict
    META_FILE,        \* registry.py:7   tools_meta.json: [state, data]
    DYN_DIR,          \* registry.py:6   tool_*.py files: file stem -> content
    cand,             \* the candidate handed to the validator: [name, code, desc]
    last,             \* the outcome of the last operation: [op, name, ok, v]
    tally,            \* name -> the mark_use calls counted since its counters were 0
    pc                \* thread -> its frame: the line it is at and its local variables

vars == <<_tool_registry, _tool_meta, META_FILE, DYN_DIR, cand, last, tally, pc>>

-----------------------------------------------------------------------------
(* Bounds of the model *)

\* mark_use is called while the uses of all tools together are below this
MaxUses == 2
\* number of syntax-tree nodes of an enumerated candidate source
MaxNodes == 3

-----------------------------------------------------------------------------
(* parser.py: the validation policy *)

ALLOWED_ROOTS == {"obspy", "numpy", "math", "typing", "collections", "seisbench"}
FORBIDDEN_CALLS == {"exec", "eval", "open", "compile", "__import__", "system", "popen"}
MAX_FUNC_SOURCE_CHARS == 8000
MAX_FUNC_LINES == 300

\* the keys of safe_builtins
SAFE_BUILTINS == {"len", "range", "min", "max", "sum", "abs", "float", "int", "str",
                  "enumerate", "zip", "list", "dict", "set", "sorted", "any", "all"}

\* FORBIDDEN_NODES with ast.With left out of the isinstance tuple
FORBIDDEN_NODES_NoWith == {"ClassDef", "Lambda", "AsyncFunctionDef", "AsyncFor", "AsyncWith"}

\* the node types _check_ast refuses anywhere in the tree
FORBIDDEN_NODES == {"ClassDef", "With", "Lambda", "AsyncFunctionDef", "AsyncFor", "AsyncWith"}

-----------------------------------------------------------------------------
(* Syntax-tree nodes.  Every node has the same fields:                      *)
(*   k      the ast node type                                               *)
(*   mod    Import/ImportFrom: the dotted module name as a sequence         *)
(*   star   ImportFrom: the imported name is "*"                            *)
(*   fk     Call: the type of node.func ("Name", "Attribute", "Other")      *)
(*   id     Call: the bare name or the trailing attribute name              *)
(*   fname  FunctionDef: the function's name                                *)
(*   sig    FunctionDef: its parameter list as inspect.signature prints it  *)
(*   doc    FunctionDef: the first line of its docstring ("" if none)       *)

Node(k, mod, star, fk, id, fname, sig, doc) ==
    [k |-> k, mod |-> mod, star |-> star, fk |-> fk, id |-> id,
     fname |-> fname, sig |-> sig, doc |-> doc]

Plain(k) == Node(k, <<>>, FALSE, "", "", <<>>, "", "")
ImportNode(mod) == Node("Import", mod, FALSE, "", "", <<>>, "", "")
ImportFromNode(mod, star) == Node("ImportFrom", mod, star, "", "", <<>>, "", "")
CallNode(fk, id) == Node("Call", <<>>, FALSE, fk, id, <<>>, "", "")
DefNode(fname, sig, doc) == Node("FunctionDef", <<>>, FALSE, "", "", fname, sig, doc)

\* A source text: chars = len(code), crlf = number of "\r\n" in it,
\* newlines = number of "\n" in it, parses = ast.parse accepts it.
Source(chars, crlf, newlines, parses, top, body) ==
    [chars |-> chars, crlf |-> crlf, newlines |-> newlines, parses |-> parses,
     top |-> top, body |-> body]

NoSource == Source(0, 0, 0, FALSE, <<>>, <<>>)

\* A callable: the function object of a source, and the builtins its globals expose.
Callable(kind, src, builtins) == [kind |-> kind, src |-> src, builtins |-> builtins]
NoCallable == Callable("none", NoSource, "none")

\* The outcome of the validator: err = "ok" and (fn, src), or the failure raised.
Verdict(err, what, fn, src) == [err |-> err, what |-> what, fn |-> fn, src |-> src]
Raise(err, what) == Verdict(err, what, NoCallable, NoSource)
Pass == Raise("ok", <<>>)

-----------------------------------------------------------------------------
(* parser.py: _is_allowed_import_root, _check_ast, extract_function *)

\* _is_allowed_import_root without the membership test of the root
_is_allowed_import_root_NonEmpty(module) == module # <<>>

_is_allowed_import_root(module) ==
    IF module = <<>> THEN FALSE ELSE Head(module) \in ALLOWED_ROOTS

\* CheckNode without the test of the trailing attribute name of a call
CheckNode_NoAttributeCalls(node) ==
    IF node.k \in FORBIDDEN_NODES THEN Raise("ForbiddenConstruct", <<node.k>>)
    ELSE IF node.k = "Import" THEN
        IF ~_is_allowed_import_root(node.mod) THEN Raise("DisallowedImport", node.mod)
        ELSE Pass
    ELSE IF node.k = "ImportFrom" THEN
        IF ~_is_allowed_import_root(node.mod) THEN Raise("DisallowedImport", node.mod)
        ELSE IF node.star THEN Raise("DisallowedImport", <<"*">>)
        ELSE Pass
    ELSE IF node.k = "Call" THEN
        IF node.fk = "Name" /\ node.id \in FORBIDDEN_CALLS THEN Raise("ForbiddenCall", <<node.id>>)
        ELSE Pass
    ELSE Pass

\* the body of the loop "for node in ast.walk(tree)" for one node
CheckNode(node) ==
    IF node.k \in FORBIDDEN_NODES THEN Raise("ForbiddenConstruct", <<node.k>>)
    ELSE IF node.k = "Import" THEN
        IF ~_is_allowed_import_root(node.mod) THEN Raise("DisallowedImport", node.mod)
        ELSE Pass
    ELSE IF node.k = "ImportFrom" THEN
        IF ~_is_allowed_import_root(node.mod) THEN Raise("DisallowedImport", node.mod)
        ELSE IF node.star THEN Raise("DisallowedImport", <<"*">>)
        ELSE Pass
    ELSE IF node.k = "Call" THEN
        IF node.fk = "Name" /\ node.id \in FORBIDDEN_CALLS THEN Raise("ForbiddenCall", <<node.id>>)
        ELSE IF node.fk = "Attribute" /\ node.id \in FORBIDDEN_CALLS
            THEN Raise("ForbiddenCall", <<node.id>>)
        ELSE Pass
    ELSE Pass

\* ast.walk: breadth first, so the top-level statements come before every node below
WalkOrder(tree) == tree.top \o tree.body

IsFunctionDef(n) == n.k = "FunctionDef"
IsOtherTop(n) == n.k \notin {"FunctionDef", "Import", "ImportFrom"}

\* the first node of the walk that raises decides the failure
FirstRaise(nodes) ==
    LET bad == {i \in 1..Len(nodes) : CheckNode(nodes[i]).err # "ok"}
    IN  IF bad = {} THEN Pass
        ELSE CheckNode(nodes[CHOOSE i \in bad : \A j \in bad : i <= j])

_check_ast(tree) ==
    IF Len(SelectSeq(tree.top, IsFunctionDef)) # 1 THEN Raise("StructureViolation", <<"functions">>)
    ELSE IF SelectSeq(tree.top, IsOtherTop) # <<>> THEN Raise("StructureViolation", <<"statements">>)
    ELSE FirstRaise(WalkOrder(tree))

\* code.replace("\r\n", "\n"): each "\r\n" loses one character, the "\n" stay
Normalize(code) == [code EXCEPT !.chars = code.chars - code.crlf, !.crlf = 0]

\* ast.get_source_segment(norm, target): the function definition alone
SourceSegment(norm, target) ==
    Source(norm.chars, 0, norm.newlines, TRUE, <<target>>, norm.body)

\* exec(fn_src, glob, loc) compiles the definition: an await or an asynchronous
\* comprehension outside an asynchronous function is refused by the compiler
ExecRaises(fn_src) == \E i \in 1..Len(fn_src.body) : fn_src.body[i].k = "Await"

extract_function(code, func_name) ==
    LET norm == Normalize(code)
        defs == {i \in 1..Len(norm.top) :
                    IsFunctionDef(norm.top[i]) /\ norm.top[i].fname = func_name}
        target == norm.top[CHOOSE i \in defs : \A j \in defs : i <= j]
        fn_src == SourceSegment(norm, target)
    IN  IF norm.chars > MAX_FUNC_SOURCE_CHARS THEN Raise("SizeLimitExceeded", <<"chars">>)
        ELSE IF norm.newlines + 1 > MAX_FUNC_LINES THEN Raise("SizeLimitExceeded", <<"lines">>)
        ELSE IF ~norm.parses THEN Raise("SyntaxInvalid", <<>>)
        ELSE IF _check_ast(norm).err # "ok" THEN _check_ast(norm)
        ELSE IF defs = {} THEN Raise("FunctionNotFound", <<>>)
        ELSE IF ExecRaises(fn_src) THEN Raise("ExecError", <<>>)
        ELSE Verdict("ok", <<>>, Callable("dynamic", fn_src, "safe_builtins"), fn_src)

-----------------------------------------------------------------------------
(* registry.py: names, files and dicts *)

\* the fragment that stands for the text "tool_"
PREFIX == "tool_"
BUILTIN_TOOL_NAMES == {<<"fetch_waveforms">>}

\* f"tool_{name}": the stem of the file of a tool, and the last part of its module name
FileStem(name) == <<PREFIX>> \o name
IsNotPrefix(t) == t # PREFIX
\* f.stem.replace("tool_", ""): every occurrence is removed, not only the leading one
StemToName(stem) == SelectSeq(stem, IsNotPrefix)

EmptyDict == <<>>
\* d.get(k, default)
Get(d, k, default) == IF k \in DOMAIN d THEN d[k] ELSE default
\* d.update(e)
Update(d, e) == [k \in DOMAIN d \cup DOMAIN e |-> IF k \in DOMAIN e THEN e[k] ELSE d[k]]
\* d.setdefault(k, v)
SetDefault(d, k, v) == IF k \in DOMAIN d THEN d ELSE Update(d, k :> v)
\* d[k] = v
Put(d, k, v) == Update(d, k :> v)
\* d without the keys outside keep
Restrict(d, keep) == [k \in DOMAIN d \cap keep |-> d[k]]

\* The process state the registry works on: the two module dicts and the metadata file.
St(reg, meta, file) == [reg |-> reg, meta |-> meta, file |-> file]
FileOk(data) == [state |-> "ok", data |-> data]
FileMissing == [state |-> "missing", data |-> EmptyDict]

-----------------------------------------------------------------------------
(* registry.py: _load_meta, _save_meta, register, mark_use, get *)

_load_meta(st) ==
    IF st.file.state = "ok" THEN [st EXCEPT !.meta = Update(st.meta, st.file.data)] ELSE st

_save_meta(st) == [st EXCEPT !.file = FileOk(st.meta)]

\* MergedMeta starting from an empty record instead of the stored one
MergedMeta_Fresh(stored, name, meta) ==
    LET m2 == SetDefault(meta, "name", name)
        m3 == SetDefault(m2, "desc", "")
        m4 == SetDefault(m3, "signature", "")
        m5 == SetDefault(m4, "origin", "unknown")
        m6 == SetDefault(m5, "uses", 0)
    IN  SetDefault(m6, "success", 0)

\* the record register leaves under name: the stored one, updated, defaults filled
MergedMeta(stored, name, meta) ==
    LET m1 == IF meta # EmptyDict THEN Update(stored, meta) ELSE stored
        m2 == SetDefault(m1, "name", name)
        m3 == SetDefault(m2, "desc", "")
        m4 == SetDefault(m3, "signature", "")
        m5 == SetDefault(m4, "origin", "unknown")
        m6 == SetDefault(m5, "uses", 0)
    IN  SetDefault(m6, "success", 0)

register(st, name, func, meta) ==
    LET m == MergedMeta(Get(st.meta, name, EmptyDict), name, meta)
    IN  _save_meta([st EXCEPT !.reg = Put(st.reg, name, func),
                              !.meta = Put(st.meta, name, m)])

\* CountedMeta counting a successful call in success only
CountedMeta_SuccessWithoutUse(m, ok) ==
    IF ok THEN Put(m, "success", Get(m, "success", 0) + 1)
    ELSE Put(m, "uses", Get(m, "uses", 0) + 1)

\* CountedMeta without the test of ok
CountedMeta_AlwaysSuccess(m, ok) ==
    LET m1 == Put(m, "uses", Get(m, "uses", 0) + 1)
    IN  Put(m1, "success", Get(m1, "success", 0) + 1)

\* the record mark_use leaves: uses + 1, and success + 1 if ok
CountedMeta(m, ok) ==
    LET m1 == Put(m, "uses", Get(m, "uses", 0) + 1)
    IN  IF ok THEN Put(m1, "success", Get(m1, "success", 0) + 1) ELSE m1

mark_use(st, name, ok) ==
    IF name \notin DOMAIN st.meta \/ st.meta[name] = EmptyDict THEN st
    ELSE _save_meta([st EXCEPT !.meta = Put(st.meta, name, CountedMeta(st.meta[name], ok))])

get(st, name) == Get(st.reg, name, NoCallable)

\* What calling fn does: an import statement looks __import__ up in the builtins of
\* the function's globals, and safe_builtins has none.
NeedsImport(src) == \E i \in 1..Len(src.body) : src.body[i].k \in {"Import", "ImportFrom"}
Outcome(fn) ==
    IF fn.builtins = "safe_builtins" /\ NeedsImport(fn.src) THEN "ImportError" ELSE "returns"

-----------------------------------------------------------------------------
(* registry.py: _load_dynamic_tools and bootstrap; the module's import *)

\* A file tool_<x>.py as register_dynamic_tool writes it: a header line and the source.
FileContent(name, src) == [header |-> name, src |-> src]

\* the function a module defines under name (hasattr / getattr on the imported module)
ModuleDefines(content, name) ==
    \E i \in 1..Len(content.src.top) :
        IsFunctionDef(content.src.top[i]) /\ content.src.top[i].fname = name
ModuleDef(content, name) ==
    content.src.top[CHOOSE i \in 1..Len(content.src.top) :
        IsFunctionDef(content.src.top[i]) /\ content.src.top[i].fname = name]

\* importlib.import_module runs the file as an ordinary module: its functions see
\* the interpreter's full builtins
ImportedFn(content) == Callable("dynamic", content.src, "builtins")

\* the meta dict _load_dynamic_tools and register_dynamic_tool hand to register
DynamicMeta(desc, signature, name) ==
    [desc |-> desc, signature |-> signature, origin |-> "dynamic", module |-> FileStem(name)]

\* the keys of file_names
FileNames(dir) == {StemToName(stem) : stem \in DOMAIN dir}

\* The names the loop registers: the module tool_<name> imports (its file exists),
\* defines <name>, and <name> is not registered yet.  Each turn of the loop reads and
\* writes the entries of its own name only, so the turns are taken together.
Loadable(st, dir) ==
    {n \in FileNames(dir) \ BUILTIN_TOOL_NAMES :
        /\ FileStem(n) \in DOMAIN dir
        /\ ModuleDefines(dir[FileStem(n)], n)
        /\ n \notin DOMAIN st.reg}

\* the state after the loop: register(name, fn, {...}) for every loaded name
AfterLoadLoop(st, dir) ==
    LET loaded == Loadable(st, dir)
        fnOf(n) == ImportedFn(dir[FileStem(n)])
        metaOf(n) == DynamicMeta(ModuleDef(dir[FileStem(n)], n).doc,
                                 ModuleDef(dir[FileStem(n)], n).sig, n)
        reg2 == Update(st.reg, [n \in loaded |-> fnOf(n)])
        meta2 == Update(st.meta,
                    [n \in loaded |-> MergedMeta(Get(st.meta, n, EmptyDict), n, metaOf(n))])
    IN  IF loaded = {} THEN st ELSE _save_meta(St(reg2, meta2, st.file))

\* CleanedMeta without the removal of the records that have no file
CleanedMeta_OrphansKept(meta0, names, loaded) ==
    Update(meta0, [k \in loaded \ DOMAIN meta0 |-> [uses |-> 0, ok |-> 0]])

\* the local dict "meta" after the orphan cleaning and the filling of loaded names
CleanedMeta(meta0, names, loaded) ==
    Update(Restrict(meta0, names),
           [k \in loaded \ DOMAIN meta0 |-> [uses |-> 0, ok |-> 0]])

_load_dynamic_tools(st, dir) ==
    LET meta0 == IF st.file.state = "ok" THEN st.file.data ELSE EmptyDict
        loaded == Loadable(st, dir)
        after == AfterLoadLoop(st, dir)
        changed == (DOMAIN meta0 \ FileNames(dir) # {}) \/ (loaded \ DOMAIN meta0 # {})
    IN  IF changed
        THEN [after EXCEPT !.file = FileOk(CleanedMeta(meta0, FileNames(dir), loaded))]
        ELSE after

BuiltinFn == Callable("builtin", NoSource, "builtins")
BuiltinMeta ==
    [desc |-> "fetch waveform summary",
     signature |-> "(network, station, start, end, channel, location)",
     origin |-> "builtin"]

bootstrap(st, dir) ==
    _load_dynamic_tools(
        register(_load_meta(st), <<"fetch_waveforms">>, BuiltinFn, BuiltinMeta), dir)

\* Importing registry.py in a new process: the two dicts start empty, line 186 calls
\* _load_dynamic_tools() and line 209 calls bootstrap().
ImportRegistry(file, dir) ==
    bootstrap(_load_dynamic_tools(St(EmptyDict, EmptyDict, file), dir), dir)

-----------------------------------------------------------------------------
(* parser.py: register_dynamic_tool *)

\* register_dynamic_tool writing the file before it looks at the verdict
register_dynamic_tool_WriteFirst(st, dir, name, code, desc) ==
    LET v == extract_function(code, name)
        dir2 == Put(dir, FileStem(name), FileContent(name, v.src))
        real_fn == ImportedFn(dir2[FileStem(name)])
        sig == ModuleDef(dir2[FileStem(name)], name).sig
    IN  IF v.err # "ok" THEN [v |-> v, st |-> st, dir |-> dir2]
        ELSE [v |-> [v EXCEPT !.fn = real_fn],
              st |-> register(st, name, real_fn, DynamicMeta(desc, sig, name)),
              dir |-> dir2]

\* The outcome of register_dynamic_tool: [v, st, dir], v the validator's verdict.
register_dynamic_tool(st, dir, name, code, desc) ==
    LET v == extract_function(code, name)
        dir2 == Put(dir, FileStem(name), FileContent(name, v.src))
        real_fn == ImportedFn(dir2[FileStem(name)])
        sig == ModuleDef(dir2[FileStem(name)], name).sig
    IN  IF v.err # "ok" THEN [v |-> v, st |-> st, dir |-> dir]
        ELSE [v |-> [v EXCEPT !.fn = real_fn],
              st |-> register(st, name, real_fn, DynamicMeta(desc, sig, name)),
              dir |-> dir2]

-----------------------------------------------------------------------------
(* The inputs of the model *)

\* the names mark_use is called with, and the names tools are proposed under
ToolNames == {<<"add">>, <<"mul">>, <<"fetch_waveforms">>}
DynNames == {<<"add">>, <<"mul">>}
Descs == {"d1", "d2"}

\* def <name>(a, b): return a + b
PlainSource(name) ==
    Source(40, 0, 1, TRUE, <<DefNode(name, "(a, b)", "")>>, <<Plain("Return")>>)
\* the same with CRLF line ends, a docstring, a third parameter and "import math"
\* at the top level and in the body
MathSource(name) ==
    Source(120, 4, 4, TRUE, <<ImportNode(<<"math">>), DefNode(name, "(a, b, c)", "adds")>>,
           <<ImportNode(<<"math">>), CallNode("Attribute", "floor")>>)
\* a function whose body holds a with block
WithSource(name) ==
    Source(60, 0, 2, TRUE, <<DefNode(name, "(a, b)", "")>>, <<Plain("With")>>)
\* "import os" and a function that calls os.system(...)
ProcessSource(name) ==
    Source(60, 0, 2, TRUE, <<ImportNode(<<"os">>), DefNode(name, "(cmd)", "")>>,
           <<CallNode("Attribute", "system")>>)
\* a source that defines another function than the one asked for
OtherNameSource(name) ==
    Source(40, 0, 1, TRUE, <<DefNode(<<"helper">>, "(a, b)", "")>>, <<Plain("Return")>>)

\* The candidates submitted: every source and description for "add", the tool under
\* study, and one valid and one invalid candidate for every other name.
ValidSources(name) ==
    IF name = <<"add">> THEN {PlainSource(name), MathSource(name)} ELSE {PlainSource(name)}
InvalidSources(name) ==
    IF name = <<"add">> THEN {WithSource(name), ProcessSource(name), OtherNameSource(name)}
    ELSE {ProcessSource(name)}
Sources(name) == ValidSources(name) \cup InvalidSources(name)
DescsFor(name, code) ==
    IF name = <<"add">> /\ code \in ValidSources(name) THEN Descs ELSE {"d1"}

Cand(name, code, desc) == [name |-> name, code |-> code, desc |-> desc]
\* the main thread at a line, with no local variables
MainAt(at) == [main |-> [at |-> at]]
NoCand == Cand(<<>>, NoSource, "")
Last(op, name, ok, v) == [op |-> op, name |-> name, ok |-> ok, v |-> v]

\* tally[n]: on = the counters of n were 0 and only mark_use touched n since then;
\* t, f = the mark_use(n, true) and mark_use(n, false) calls since then
Tally(on, t, f) == [on |-> on, t |-> t, f |-> f]
FreshTally(meta, n) ==
    IF n \in DOMAIN meta /\ meta[n] # EmptyDict
       /\ Get(meta[n], "uses", 0) = 0 /\ Get(meta[n], "success", 0) = 0
    THEN Tally(TRUE, 0, 0) ELSE Tally(FALSE, 0, 0)

-----------------------------------------------------------------------------
(* The state machine *)

Cur == St(_tool_registry, _tool_meta, META_FILE)

Install(st) ==
    /\ _tool_registry' = st.reg
    /\ _tool_meta' = st.meta
    /\ META_FILE' = st.file

Init ==
    LET st == ImportRegistry(FileMissing, EmptyDict)
    IN  /\ _tool_registry = st.reg
        /\ _tool_meta = st.meta
        /\ META_FILE = st.file
        /\ DYN_DIR = EmptyDict
        /\ cand = NoCand
        /\ last = Last("import", <<>>, FALSE, Pass)
        /\ tally = [n \in ToolNames |-> FreshTally(st.meta, n)]
        /\ pc = MainAt("ready")

\* parser.register_dynamic_tool(name, code, desc)
RegisterDynamic(name, code, desc) ==
    LET r == register_dynamic_tool(Cur, DYN_DIR, name, code, desc)
    IN  /\ Install(r.st)
        /\ DYN_DIR' = r.dir
        /\ cand' = Cand(name, code, desc)
        /\ last' = Last("register_dynamic", name, FALSE, r.v)
        /\ tally' = IF r.v.err = "ok"
                    THEN [tally EXCEPT ![name] = FreshTally(r.st.meta, name)]
                    ELSE tally
        /\ UNCHANGED pc

\* the uses of the tools of S together
RECURSIVE SumUses(_, _)
SumUses(meta, S) ==
    IF S = {} THEN 0
    ELSE LET n == CHOOSE x \in S : TRUE
         IN  Get(meta[n], "uses", 0) + SumUses(meta, S \ {n})

\* registry.mark_use(name, ok)
MarkUse(name, ok) ==
    /\ SumUses(_tool_meta, DOMAIN _tool_meta) < MaxUses
    /\ Install(mark_use(Cur, name, ok))
    /\ UNCHANGED DYN_DIR
    /\ cand' = NoCand
    /\ last' = Last("mark_use", name, ok, Pass)
    /\ tally' = [tally EXCEPT ![name] =
                    IF ~@.on THEN @
                    ELSE IF ok THEN Tally(TRUE, @.t + 1, @.f) ELSE Tally(TRUE, @.t, @.f + 1)]
    /\ UNCHANGED pc

\* the process ends and a new one imports registry.py
Restart ==
    LET st == ImportRegistry(META_FILE, DYN_DIR)
    IN  /\ Install(st)
        /\ UNCHANGED DYN_DIR
        /\ cand' = NoCand
        /\ last' = Last("import", <<>>, FALSE, Pass)
        /\ tally' = [n \in ToolNames |-> FreshTally(st.meta, n)]
        /\ UNCHANGED pc

\* somebody deletes a tool's source file
DeleteSourceFile(stem) ==
    /\ stem \in DOMAIN DYN_DIR
    /\ DYN_DIR' = Restrict(DYN_DIR, DOMAIN DYN_DIR \ {stem})
    /\ cand' = NoCand
    /\ last' = Last("delete_source", StemToName(stem), FALSE, Pass)
    /\ UNCHANGED <<_tool_registry, _tool_meta, META_FILE, tally, pc>>

Next ==
    \/ \E name \in DynNames : \E code \in Sources(name) : \E desc \in DescsFor(name, code) :
          RegisterDynamic(name, code, desc)
    \/ \E name \in ToolNames, ok \in BOOLEAN : MarkUse(name, ok)
    \/ Restart
    \/ \E name \in DynNames : DeleteSourceFile(FileStem(name))

Spec == Init /\ [][Next]_vars

-----------------------------------------------------------------------------
(* The validator alone, on every candidate source of at most MaxNodes nodes *)

\* (len(code), number of "\r\n", number of "\n"): small; at the character ceiling
\* after normalisation only; over it; at the line ceiling; over it
SizeCases ==
    {<<40, 0, 1>>,
     <<MAX_FUNC_SOURCE_CHARS + 1, 1, 1>>,
     <<MAX_FUNC_SOURCE_CHARS + 1, 0, 1>>,
     <<40, 0, MAX_FUNC_LINES - 1>>,
     <<40, 0, MAX_FUNC_LINES>>}

TopNodes ==
    {DefNode(<<"add">>, "(a, b)", ""), DefNode(<<"helper">>, "(x)", ""),
     ImportNode(<<"math">>), ImportNode(<<"os">>),
     ImportFromNode(<<"obspy", "core">>, TRUE),
     Plain("Expr"), Plain("With")}

BodyNodes ==
    {Plain("With"), Plain("Lambda"), Plain("Await"),
     ImportNode(<<"os">>), ImportNode(<<"math">>),
     ImportFromNode(<<"subprocess">>, FALSE), ImportFromNode(<<"math">>, TRUE),
     CallNode("Name", "eval"), CallNode("Attribute", "system"), CallNode("Name", "len")}

SeqsOfLen(S, n) == [1..n -> S]

Trees ==
    UNION {SeqsOfLen(TopNodes, t) \X SeqsOfLen(BodyNodes, b) :
              <<t, b>> \in {x \in (0..MaxNodes) \X (0..MaxNodes) : x[1] + x[2] <= MaxNodes}}

AllSources ==
    {Source(z[1], z[2], z[3], TRUE, tr[1], tr[2]) : z \in SizeCases, tr \in Trees}
    \cup {Source(z[1], z[2], z[3], FALSE, <<>>, <<>>) : z \in SizeCases}

InitV ==
    LET st == ImportRegistry(FileMissing, EmptyDict)
    IN  /\ _tool_registry = st.reg
        /\ _tool_meta = st.meta
        /\ META_FILE = st.file
        /\ DYN_DIR = EmptyDict
        /\ cand \in {Cand(<<"add">>, code, "d1") : code \in AllSources}
        /\ last = Last("import", <<>>, FALSE, Pass)
        /\ tally = [n \in ToolNames |-> FreshTally(st.meta, n)]
        /\ pc = MainAt("ready")

\* parser.extract_function(code, func_name) on the candidate
Validate ==
    /\ last.op = "import"
    /\ last' = Last("validate", cand.name, FALSE, extract_function(cand.code, cand.name))
    /\ UNCHANGED <<_tool_registry, _tool_meta, META_FILE, DYN_DIR, cand, tally, pc>>

NextV == Validate

SpecV == InitV /\ [][NextV]_vars

-----------------------------------------------------------------------------
(* What the claims say about a source, stated on its nodes *)

NodesOf(code) == code.top \o code.body
IsConstruct(n) ==
    n.k \in {"ClassDef", "With", "Lambda", "AsyncFunctionDef", "AsyncFor", "AsyncWith"}
IsAsyncExpr(n) == n.k = "Await"
IsImport(n) == n.k \in {"Import", "ImportFrom"}
RootOutsideAllowList(n) ==
    IsImport(n) /\ (n.mod = <<>> \/ n.mod[1] \notin
        {"obspy", "numpy", "math", "typing", "collections", "seisbench"})
IsWildcard(n) == n.k = "ImportFrom" /\ n.star
IsDeniedCall(n) ==
    /\ n.k = "Call" /\ n.fk \in {"Name", "Attribute"}
    /\ n.id \in {"exec", "eval", "open", "compile", "__import__", "system", "popen"}
Offends(n) == IsConstruct(n) \/ RootOutsideAllowList(n) \/ IsWildcard(n) \/ IsDeniedCall(n)

Has(code, P(_)) == \E i \in 1..Len(NodesOf(code)) : P(NodesOf(code)[i])
\* P holds of the first offending node of the breadth-first walk
FirstOffender(code, P(_)) ==
    \E i \in 1..Len(NodesOf(code)) :
        /\ P(NodesOf(code)[i])
        /\ \A j \in 1..(i - 1) : ~Offends(NodesOf(code)[j])

SizeWithinCeilings(code) ==
    code.chars - code.crlf <= 8000 /\ code.newlines + 1 <= 300
ShapeOk(code) ==
    /\ Cardinality({i \in 1..Len(code.top) : code.top[i].k = "FunctionDef"}) = 1
    /\ \A i \in 1..Len(code.top) : code.top[i].k \in {"FunctionDef", "Import", "ImportFrom"}
ReachesWalk(code) == SizeWithinCeilings(code) /\ code.parses /\ ShapeOk(code)

Validated == last.op = "validate"

-----------------------------------------------------------------------------
(* C1 *)

\* C1: for a registered name whose counters started at 0, after N calls
\* mark_use(name, true) and M calls mark_use(name, false) in any order, with no other
\* operation on the name in between, its record has uses = N + M and success = N, in
\* memory and, once a call has been made, in the persisted store.
C1_MarkUseCounts ==
    \A n \in ToolNames :
        tally[n].on =>
            /\ n \in DOMAIN _tool_meta
            /\ _tool_meta[n].uses = tally[n].t + tally[n].f
            /\ _tool_meta[n].success = tally[n].t
            /\ tally[n].t + tally[n].f >= 1 =>
                /\ META_FILE.state = "ok"
                /\ n \in DOMAIN META_FILE.data
                /\ META_FILE.data[n].uses = tally[n].t + tally[n].f
                /\ META_FILE.data[n].success = tally[n].t

C1_Witness ==
    /\ tally[<<"add">>] = Tally(TRUE, 1, 1)
    /\ last = Last("mark_use", <<"add">>, FALSE, Pass)

-----------------------------------------------------------------------------
(* C2 *)

\* C2: when register_dynamic_tool is given a source that fails validation, the failure
\* is raised and the catalog, the metadata in memory, the persisted metadata and the
\* source store are as before the call; a source that imports a process-execution
\* module and calls it is refused by the import check, before exec is reached.
C2_FailedValidationChangesNothing ==
    [][(last'.op = "register_dynamic" /\ last'.v.err # "ok") =>
          /\ UNCHANGED <<_tool_registry, _tool_meta, META_FILE, DYN_DIR>>
          /\ last'.v.fn = NoCallable
          /\ cand'.code = ProcessSource(cand'.name) =>
                (last'.v.err = "DisallowedImport" /\ last'.v.what = <<"os">>)]_vars

C2_Witness ==
    /\ last.op = "register_dynamic"
    /\ last.v.err = "DisallowedImport"
    /\ cand.code = ProcessSource(<<"add">>)
    /\ <<"add">> \in DOMAIN _tool_registry
    /\ _tool_registry[<<"add">>].src.top = <<DefNode(<<"add">>, "(a, b)", "")>>

-----------------------------------------------------------------------------
(* C3 *)

-----------------------------------------------------------------------------
(* C4 *)

IsWith(n) == n.k = "With"

-----------------------------------------------------------------------------
(* C5 *)

-----------------------------------------------------------------------------
(* C6 *)

\* the failure of the earliest violated gate in the order size, parse, top-level
\* shape, forbidden constructs, import policy, call policy ("none" if none is violated)
EarliestGate(code) ==
    IF ~SizeWithinCeilings(code) THEN "SizeLimitExceeded"
    ELSE IF ~code.parses THEN "SyntaxInvalid"
    ELSE IF ~ShapeOk(code) THEN "StructureViolation"
    ELSE IF Has(code, IsConstruct) THEN "ForbiddenConstruct"
    ELSE IF Has(code, RootOutsideAllowList) \/ Has(code, IsWildcard) THEN "DisallowedImport"
    ELSE IF Has(code, IsDeniedCall) THEN "ForbiddenCall"
    ELSE "none"

\* C6: the gates are applied in the order size, parse, top-level shape, forbidden
\* constructs, import policy, call policy, and the failure reported for a source is
\* that of the earliest gate it violates.
C6_EarliestGateWins ==
    (Validated /\ EarliestGate(cand.code) # "none") => last.v.err = EarliestGate(cand.code)

-----------------------------------------------------------------------------
(* C7 *)

\* C7: after a successful register_dynamic_tool(name, source, description), get(name)
\* behaves as the callable the validator compiled from the canonical source in the
\* restricted namespace, and its globals expose the safe builtins only.
C7_RegisteredIsRestricted ==
    (last.op = "register_dynamic" /\ last.v.err = "ok") =>
        /\ get(Cur, last.name).src = extract_function(cand.code, cand.name).src
        /\ Outcome(get(Cur, last.name)) = Outcome(extract_function(cand.code, cand.name).fn)
        /\ get(Cur, last.name).builtins = "safe_builtins"

-----------------------------------------------------------------------------
(* C8 *)

\* the function definition of code named n
DefOf(code, n) ==
    code.top[CHOOSE i \in 1..Len(code.top) :
        code.top[i].k = "FunctionDef" /\ code.top[i].fname = n]

\* C8: a successful register_dynamic_tool(name, s2, d2) on a name that has a record
\* replaces it: afterwards get(name) is the callable of s2, the file of name holds the
\* function definition of s2, description and signature are those of this call, uses
\* and success are what they were before it, the persisted record is the one in
\* memory, and no other name's callable or record changes.
C8_ReRegistrationKeepsCounters ==
    [][(/\ last'.op = "register_dynamic" /\ last'.v.err = "ok"
        /\ last'.name \in DOMAIN _tool_meta) =>
          LET n == last'.name
              d == DefOf(cand'.code, n)
          IN  /\ n \in DOMAIN _tool_registry' /\ n \in DOMAIN _tool_meta'
              /\ _tool_registry'[n].src.top = <<d>>
              /\ _tool_registry'[n].src.body = cand'.code.body
              /\ DYN_DIR'[FileStem(n)].src = _tool_registry'[n].src
              /\ _tool_meta'[n].desc = cand'.desc
              /\ _tool_meta'[n].signature = d.sig
              /\ _tool_meta'[n].uses = Get(_tool_meta[n], "uses", 0)
              /\ _tool_meta'[n].success = Get(_tool_meta[n], "success", 0)
              /\ META_FILE'.state = "ok" /\ META_FILE'.data = _tool_meta'
              /\ DOMAIN _tool_meta' = DOMAIN _tool_meta
              /\ \A m \in DOMAIN _tool_meta \ {n} : _tool_meta'[m] = _tool_meta[m]
              /\ \A m \in DOMAIN _tool_registry \ {n} :
                    m \in DOMAIN _tool_registry' /\ _tool_registry'[m] = _tool_registry[m]]_vars

C8_Witness ==
    /\ last.op = "register_dynamic" /\ last.v.err = "ok" /\ last.name = <<"add">>
    /\ cand = Cand(<<"add">>, MathSource(<<"add">>), "d2")
    /\ _tool_meta[<<"add">>].uses = 2 /\ _tool_meta[<<"add">>].success = 1
    /\ _tool_meta[<<"add">>].desc = "d2" /\ _tool_meta[<<"add">>].signature = "(a, b, c)"

-----------------------------------------------------------------------------
(* C9 *)

\* the dynamic tools with a record in memory whose source file is gone
Deleted ==
    {n \in DOMAIN _tool_meta :
        /\ Get(_tool_meta[n], "origin", "") = "dynamic"
        /\ FileStem(n) \notin DOMAIN DYN_DIR}

\* C9: when one dynamic tool's source file has been deleted, a restart removes that
\* tool's record and leaves the record of every other tool, built-in and dynamic, as
\* it was, in memory and in the persisted store.
C9_RestartRemovesOnlyDeleted ==
    [][(last'.op = "import" /\ Cardinality(Deleted) = 1 /\ META_FILE.state = "ok") =>
          \A d \in Deleted :
              /\ d \notin DOMAIN _tool_meta'
              /\ META_FILE'.state = "ok" /\ d \notin DOMAIN META_FILE'.data
              /\ \A n \in DOMAIN _tool_meta \ {d} :
                    n \in DOMAIN _tool_meta' /\ _tool_meta'[n] = _tool_meta[n]
              /\ \A n \in DOMAIN META_FILE.data \ {d} :
                    n \in DOMAIN META_FILE'.data /\ META_FILE'.data[n] = META_FILE.data[n]]_vars

-----------------------------------------------------------------------------
(* C10 *)

\* C10: for every dynamic tool whose source file is intact, the uses and success
\* persisted before a restart are the ones in memory and in the persisted store after
\* it, for any number of restarts in a row.
C10_CountersSurviveRestart ==
    [][(last'.op = "import" /\ META_FILE.state = "ok") =>
          \A n \in DOMAIN META_FILE.data :
              (/\ Get(META_FILE.data[n], "origin", "") = "dynamic"
               /\ FileStem(n) \in DOMAIN DYN_DIR) =>
                  /\ n \in DOMAIN _tool_meta'
                  /\ Get(_tool_meta'[n], "uses", 0) = Get(META_FILE.data[n], "uses", 0)
                  /\ Get(_tool_meta'[n], "success", 0) = Get(META_FILE.data[n], "success", 0)
                  /\ META_FILE'.state = "ok" /\ n \in DOMAIN META_FILE'.data
                  /\ Get(META_FILE'.data[n], "uses", 0) = Get(META_FILE.data[n], "uses", 0)
                  /\ Get(META_FILE'.data[n], "success", 0) = Get(META_FILE.data[n], "success", 0)]_vars

-----------------------------------------------------------------------------
(* registry.py: list_meta and format_tools_for_prompt *)

\* the names of the model in the order Python sorts their text
SortedNames == <<<<"add">>, <<"fetch_waveforms">>, <<"mul">>>>
NameRank(n) == CHOOSE i \in 1..Len(SortedNames) : SortedNames[i] = n

\* sorted(values, key=lambda x: x["name"])
RECURSIVE SortByName(_)
SortByName(S) ==
    IF S = {} THEN <<>>
    ELSE LET m == CHOOSE x \in S : \A y \in S : NameRank(x.name) <= NameRank(y.name)
         IN  <<m>> \o SortByName(S \ {m})

\* one entry of the list list_meta returns
ListedMeta(m) ==
    [name |-> m.name, desc |-> Get(m, "desc", ""), signature |-> Get(m, "signature", ""),
     uses |-> Get(m, "uses", 0), success |-> Get(m, "success", 0),
     origin |-> Get(m, "origin", "")]

\* x["name"] raises KeyError on a record without the key; no other key is required
list_meta(st) ==
    IF \E k \in DOMAIN st.meta : "name" \notin DOMAIN st.meta[k]
    THEN Raise("KeyError", <<"name">>)
    ELSE Verdict("ok", SortByName({ListedMeta(st.meta[k]) : k \in DOMAIN st.meta}),
                 NoCallable, NoSource)

\* PromptLine with the two counters exchanged
PromptLine_CountersExchanged(m) ==
    <<m.name, m.signature, " - ", m.desc, " uses=", m.success, " ok=", m.uses>>

\* one line of the text: name, signature, " - ", desc, " uses=", uses, " ok=", success
PromptLine(m) == <<m.name, m.signature, " - ", m.desc, " uses=", m.uses, " ok=", m.success>>

format_tools_for_prompt(st) ==
    LET l == list_meta(st)
    IN  IF l.err # "ok" THEN l
        ELSE IF l.what = <<>> THEN Verdict("ok", <<"(no tools)">>, NoCallable, NoSource)
        ELSE Verdict("ok", [i \in 1..Len(l.what) |-> PromptLine(l.what[i])],
                     NoCallable, NoSource)

-----------------------------------------------------------------------------
(* The import of registry.py line by line, from every durable state of the  *)
(* two stores: tools_meta.json missing, unreadable or holding records, some *)
(* of them partial; tool_*.py files as written, edited by hand, or gone.    *)

FileCorrupt == [state |-> "corrupt", data |-> EmptyDict]

\* the record register_dynamic_tool leaves for name, with the counters given
StoredRecord(name, uses, success) ==
    [MergedMeta(EmptyDict, name, DynamicMeta("d1", "(a, b)", name))
        EXCEPT !.uses = uses, !.success = success]

MetaFiles ==
    {FileMissing, FileCorrupt, FileOk(EmptyDict),
     FileOk(<<"add">> :> StoredRecord(<<"add">>, 2, 1)),
     FileOk(<<"add">> :> [uses |-> 2]),
     FileOk(<<"mul">> :> StoredRecord(<<"mul">>, 1, 1)),
     FileOk((<<"add">> :> StoredRecord(<<"add">>, 2, 1))
            @@ (<<"fetch_waveforms">> :> MergedMeta(EmptyDict, <<"fetch_waveforms">>, BuiltinMeta)))}

\* tool_add.py as register_dynamic_tool wrote it
WrittenFile(name) == FileContent(name, extract_function(PlainSource(name), name).src)
\* tool_add.py edited by hand: it imports os and calls os.system
EditedFile(name) == FileContent(name, ProcessSource(name))
\* tool_add.py edited by hand: it no longer defines the function of its name
RenamedFile(name) == FileContent(name, OtherNameSource(name))
\* tool_add.py edited by hand: "raise SystemExit(3)" stands before the function
ExitingSource(name) ==
    Source(60, 0, 2, TRUE,
           <<Node("Raise", <<>>, FALSE, "", "SystemExit", <<>>, "", ""),
             DefNode(name, "(a, b)", "")>>,
           <<Plain("Return")>>)
ExitingFile(name) == FileContent(name, ExitingSource(name))

\* importlib.import_module(mod_name) runs the statements of the file: a SystemExit or
\* KeyboardInterrupt raised by one of them is not an Exception, so the handler at
\* line 162 does not catch it
ImportExits(content) ==
    \E i \in 1..Len(content.src.top) :
        /\ content.src.top[i].k = "Raise"
        /\ content.src.top[i].id \in {"SystemExit", "KeyboardInterrupt"}
\* a file _load_dynamic_tools tries to import leaves the function by such an exception
LoadExits(dir) ==
    \E n \in FileNames(dir) \ BUILTIN_TOOL_NAMES :
        FileStem(n) \in DOMAIN dir /\ ImportExits(dir[FileStem(n)])

SourceStores ==
    {Update(a, m) :
        a \in {EmptyDict} \cup {FileStem(<<"add">>) :> c :
                   c \in {WrittenFile(<<"add">>), EditedFile(<<"add">>), RenamedFile(<<"add">>),
                         ExitingFile(<<"add">>)}},
        m \in {EmptyDict, FileStem(<<"mul">>) :> WrittenFile(<<"mul">>)}}

\* the frame of the importing thread: the line it is at, and the metadata file as the
\* process found it
Importing(at, durable) == [main |-> [at |-> at, durable |-> durable]]

InitBoot ==
    /\ _tool_registry = EmptyDict
    /\ _tool_meta = EmptyDict
    /\ META_FILE \in MetaFiles
    /\ DYN_DIR \in SourceStores
    /\ cand = NoCand
    /\ last = Last("import", <<>>, FALSE, Pass)
    /\ tally = [n \in ToolNames |-> Tally(FALSE, 0, 0)]
    /\ pc = Importing("line186", META_FILE)

\* line 186: _load_dynamic_tools() at module level
LoadDynamicAtImport ==
    /\ pc.main.at = "line186"
    /\ ~LoadExits(DYN_DIR)
    /\ Install(_load_dynamic_tools(Cur, DYN_DIR))
    /\ pc' = [pc EXCEPT !.main.at = "line195"]
    /\ UNCHANGED <<DYN_DIR, cand, last, tally>>

\* line 186: the import of a tool file raises SystemExit, which leaves
\* _load_dynamic_tools and the import of registry.py: the process does not start
ImportAborts ==
    /\ pc.main.at = "line186"
    /\ LoadExits(DYN_DIR)
    /\ pc' = [pc EXCEPT !.main.at = "aborted"]
    /\ last' = Last("import", <<>>, FALSE, Raise("SystemExit", <<>>))
    /\ UNCHANGED <<_tool_registry, _tool_meta, META_FILE, DYN_DIR, cand, tally>>

\* line 195: bootstrap() calls _load_meta()
BootLoadMeta ==
    /\ pc.main.at = "line195"
    /\ Install(_load_meta(Cur))
    /\ pc' = [pc EXCEPT !.main.at = "line197"]
    /\ UNCHANGED <<DYN_DIR, cand, last, tally>>

\* lines 197-205: bootstrap() registers the built-in tool
BootRegisterBuiltin ==
    /\ pc.main.at = "line197"
    /\ Install(register(Cur, <<"fetch_waveforms">>, BuiltinFn, BuiltinMeta))
    /\ pc' = [pc EXCEPT !.main.at = "line206"]
    /\ UNCHANGED <<DYN_DIR, cand, last, tally>>

\* line 206: bootstrap() calls _load_dynamic_tools()
BootLoadDynamic ==
    /\ pc.main.at = "line206"
    /\ Install(_load_dynamic_tools(Cur, DYN_DIR))
    /\ pc' = [pc EXCEPT !.main.at = "ready"]
    /\ UNCHANGED <<DYN_DIR, cand, last, tally>>

\* registry.list_meta()
ListMeta ==
    /\ pc.main.at = "ready"
    /\ last' = Last("list_meta", <<>>, FALSE, list_meta(Cur))
    /\ UNCHANGED <<_tool_registry, _tool_meta, META_FILE, DYN_DIR, cand, tally, pc>>

\* registry.format_tools_for_prompt()
FormatTools ==
    /\ pc.main.at = "ready"
    /\ last' = Last("format_tools_for_prompt", <<>>, FALSE, format_tools_for_prompt(Cur))
    /\ UNCHANGED <<_tool_registry, _tool_meta, META_FILE, DYN_DIR, cand, tally, pc>>

NextBoot ==
    \/ LoadDynamicAtImport
    \/ ImportAborts
    \/ BootLoadMeta
    \/ BootRegisterBuiltin
    \/ BootLoadDynamic
    \/ ListMeta
    \/ FormatTools

SpecBoot == InitBoot /\ [][NextBoot]_vars

\* the line-by-line import ends in the state ImportRegistry computes
BootAgreesWithImportRegistry ==
    pc.main.at = "ready" => Cur = ImportRegistry(pc.main.durable, DYN_DIR)

-----------------------------------------------------------------------------
(* C11 *)

Booted == "durable" \in DOMAIN pc.main /\ pc.main.at = "ready"
\* the persisted metadata has not been loaded into memory yet
BeforeLoadMeta == "durable" \in DOMAIN pc.main /\ pc.main.at \in {"line186", "line195"}

\* C11: at process start, as long as the persisted metadata has not been loaded into
\* memory no tool is registered and the metadata store is as the process found it,
\* and a dynamic tool is in the catalog only when the built-in tool is.
C11_BootOrder ==
    /\ BeforeLoadMeta => (_tool_registry = EmptyDict /\ META_FILE = pc.main.durable)
    /\ (DOMAIN _tool_registry \ BUILTIN_TOOL_NAMES # {}) =>
          BUILTIN_TOOL_NAMES \subseteq DOMAIN _tool_registry

-----------------------------------------------------------------------------
(* C12 *)

\* C12: after bootstrap every dynamic tool in the catalog has a source file whose
\* present content passes the validator.
C12_LoadedToolsPassValidator ==
    Booted =>
        \A n \in DOMAIN _tool_registry \ BUILTIN_TOOL_NAMES :
            /\ FileStem(n) \in DOMAIN DYN_DIR
            /\ extract_function(DYN_DIR[FileStem(n)].src, n).err = "ok"

-----------------------------------------------------------------------------
(* C13 *)

RecordFields == {"name", "desc", "signature", "origin", "uses", "success"}

\* C13: after bootstrap from any durable state every metadata record has name,
\* desc, signature, origin, uses and success, and list_meta and
\* format_tools_for_prompt return every entry, sorted by name, without raising.
C13_RecordsCompleteAfterBoot ==
    Booted =>
        /\ \A n \in DOMAIN _tool_meta : RecordFields \subseteq DOMAIN _tool_meta[n]
        /\ list_meta(Cur).err = "ok"
        /\ Len(list_meta(Cur).what) = Cardinality(DOMAIN _tool_meta)
        /\ format_tools_for_prompt(Cur).err = "ok"
        /\ last.op \in {"list_meta", "format_tools_for_prompt"} => last.v.err = "ok"

-----------------------------------------------------------------------------
(* register and mark_use called from several threads, statement by statement. *)
(* The code takes no lock; the interpreter may switch threads between any two  *)
(* statements, and between the read and the write of m["uses"] = m.get(...)+1. *)
(* The tool has a record from the start, so the m of every frame is the dict   *)
(* object stored in _tool_meta[name]: what a thread writes to m is visible to  *)
(* all at once.  json.dumps and write_text are each taken as one step.         *)

Workers == {"t1", "t2"}
Reader == "r"
\* the tool the threads work on
Tool == <<"add">>

\* the frame of a worker: the line it is at, the call it makes, its locals
Frame(at, op, ok, func, meta, tmp, snap) ==
    [at |-> at, op |-> op, ok |-> ok, func |-> func, meta |-> meta, tmp |-> tmp, snap |-> snap]
IdleFrame == Frame("idle", "none", FALSE, NoCallable, EmptyDict, 0, EmptyDict)
\* the frame of the reader: what it read last
ReaderFrame(at, fn, meta) == [at |-> at, fn |-> fn, meta |-> meta]

\* the arguments of a second registration of the tool
NewFn == ImportedFn(FileContent(Tool, extract_function(MathSource(Tool), Tool).src))
NewMeta == DynamicMeta("d2", "(a, b, c)", Tool)

\* the process after its import and register_dynamic_tool(Tool, PlainSource, "d1")
Started == register_dynamic_tool(ImportRegistry(FileMissing, EmptyDict), EmptyDict,
                                 Tool, PlainSource(Tool), "d1")

InitThreads ==
    /\ _tool_registry = Started.st.reg
    /\ _tool_meta = Started.st.meta
    /\ META_FILE = Started.st.file
    /\ DYN_DIR = Started.dir
    /\ cand = NoCand
    /\ last = Last("register_dynamic", Tool, FALSE, Started.v)
    /\ tally = [n \in ToolNames |-> Tally(FALSE, 0, 0)]
    /\ pc = [t \in Workers \cup {Reader} |->
                IF t = Reader THEN ReaderFrame("idle", NoCallable, EmptyDict) ELSE IdleFrame]

Goto(t, at) == pc' = [pc EXCEPT ![t].at = at]

\* a thread calls registry.mark_use(Tool, ok)
CallMarkUse(t, ok) ==
    /\ pc[t].at = "idle"
    /\ pc' = [pc EXCEPT ![t] = Frame("line62", "mark_use", ok, NoCallable, EmptyDict, 0, EmptyDict)]
    /\ UNCHANGED <<_tool_registry, _tool_meta, META_FILE, DYN_DIR, cand, last, tally>>

\* lines 62-64: m = _tool_meta.get(name); if not m: return
MarkUseGet(t) ==
    /\ pc[t].at = "line62"
    /\ Goto(t, IF Get(_tool_meta, Tool, EmptyDict) = EmptyDict THEN "done" ELSE "line65")
    /\ UNCHANGED <<_tool_registry, _tool_meta, META_FILE, DYN_DIR, cand, last, tally>>

\* line 65, right-hand side: m.get("uses", 0) + 1
MarkUseReadUses(t) ==
    /\ pc[t].at = "line65"
    /\ pc' = [pc EXCEPT ![t].at = "line65_store", ![t].tmp = Get(_tool_meta[Tool], "uses", 0) + 1]
    /\ UNCHANGED <<_tool_registry, _tool_meta, META_FILE, DYN_DIR, cand, last, tally>>

\* line 65, the store: m["uses"] = ...
MarkUseStoreUses(t) ==
    /\ pc[t].at = "line65_store"
    /\ _tool_meta' = Put(_tool_meta, Tool, Put(_tool_meta[Tool], "uses", pc[t].tmp))
    /\ Goto(t, IF pc[t].ok THEN "line67" ELSE "line68")
    /\ UNCHANGED <<_tool_registry, META_FILE, DYN_DIR, cand, last, tally>>

\* line 67, right-hand side: m.get("success", 0) + 1
MarkUseReadSuccess(t) ==
    /\ pc[t].at = "line67"
    /\ pc' = [pc EXCEPT ![t].at = "line67_store",
                        ![t].tmp = Get(_tool_meta[Tool], "success", 0) + 1]
    /\ UNCHANGED <<_tool_registry, _tool_meta, META_FILE, DYN_DIR, cand, last, tally>>

\* line 67, the store: m["success"] = ...
MarkUseStoreSuccess(t) ==
    /\ pc[t].at = "line67_store"
    /\ _tool_meta' = Put(_tool_meta, Tool, Put(_tool_meta[Tool], "success", pc[t].tmp))
    /\ Goto(t, "line68")
    /\ UNCHANGED <<_tool_registry, META_FILE, DYN_DIR, cand, last, tally>>

\* a thread calls registry.register(Tool, NewFn, NewMeta)
CallRegister(t) ==
    /\ pc[t].at = "idle"
    /\ pc' = [pc EXCEPT ![t] = Frame("line44", "register", FALSE, NewFn, NewMeta, 0, EmptyDict)]
    /\ UNCHANGED <<_tool_registry, _tool_meta, META_FILE, DYN_DIR, cand, last, tally>>

\* line 44: _tool_registry[name] = func
RegisterStoreFunc(t) ==
    /\ pc[t].at = "line44"
    /\ _tool_registry' = Put(_tool_registry, Tool, pc[t].func)
    /\ Goto(t, "line45")
    /\ UNCHANGED <<_tool_meta, META_FILE, DYN_DIR, cand, last, tally>>

\* lines 45-53: m = _tool_meta.get(name, {}); m.update(meta); m.setdefault(...).
\* m is the stored dict, which has every default already: update is what changes it.
RegisterUpdateMeta(t) ==
    /\ pc[t].at = "line45"
    /\ _tool_meta' = Put(_tool_meta, Tool,
                         MergedMeta(Get(_tool_meta, Tool, EmptyDict), Tool, pc[t].meta))
    /\ Goto(t, "line54")
    /\ UNCHANGED <<_tool_registry, META_FILE, DYN_DIR, cand, last, tally>>

\* line 54: _tool_meta[name] = m, the dict that is stored there already
RegisterStoreMeta(t) ==
    /\ pc[t].at = "line54"
    /\ Goto(t, "line55")
    /\ UNCHANGED <<_tool_registry, _tool_meta, META_FILE, DYN_DIR, cand, last, tally>>

\* _save_meta, line 31: json.dumps(_tool_meta, ...)
SaveMetaDumps(t) ==
    /\ pc[t].at \in {"line55", "line68"}
    /\ pc' = [pc EXCEPT ![t].at = "line31_write", ![t].snap = _tool_meta]
    /\ UNCHANGED <<_tool_registry, _tool_meta, META_FILE, DYN_DIR, cand, last, tally>>

\* _save_meta, line 31: META_FILE.write_text(...); the call returns
SaveMetaWrite(t) ==
    /\ pc[t].at = "line31_write"
    /\ META_FILE' = FileOk(pc[t].snap)
    /\ Goto(t, "done")
    /\ UNCHANGED <<_tool_registry, _tool_meta, DYN_DIR, cand, last, tally>>

\* another thread reads the entry of the tool: registry.get(name) and its record
ReadEntry ==
    /\ pc' = [pc EXCEPT ![Reader] =
                 ReaderFrame("read", get(Cur, Tool), Get(_tool_meta, Tool, EmptyDict))]
    /\ UNCHANGED <<_tool_registry, _tool_meta, META_FILE, DYN_DIR, cand, last, tally>>

NextThreads ==
    \/ \E t \in Workers, ok \in BOOLEAN : CallMarkUse(t, ok)
    \/ \E t \in Workers : MarkUseGet(t)
    \/ \E t \in Workers : MarkUseReadUses(t)
    \/ \E t \in Workers : MarkUseStoreUses(t)
    \/ \E t \in Workers : MarkUseReadSuccess(t)
    \/ \E t \in Workers : MarkUseStoreSuccess(t)
    \/ \E t \in Workers : CallRegister(t)
    \/ \E t \in Workers : RegisterStoreFunc(t)
    \/ \E t \in Workers : RegisterUpdateMeta(t)
    \/ \E t \in Workers : RegisterStoreMeta(t)
    \/ \E t \in Workers : SaveMetaDumps(t)
    \/ \E t \in Workers : SaveMetaWrite(t)
    \/ ReadEntry

SpecThreads == InitThreads /\ [][NextThreads]_vars

\* a thread that runs alone leaves what register and mark_use compute in one step
AloneAgrees ==
    \A t \in Workers :
        (pc[t].at = "done" /\ \A u \in Workers \ {t} : pc[u].at = "idle") =>
            Cur = IF pc[t].op = "mark_use" THEN mark_use(Started.st, Tool, pc[t].ok)
                  ELSE register(Started.st, Tool, NewFn, NewMeta)

-----------------------------------------------------------------------------
(* C14 *)

InThreads == Reader \in DOMAIN pc
AllDone == \A t \in Workers : pc[t].at = "done"

\* C14: when every thread has called mark_use(name, true) once on a tool whose
\* counters were 0 and all the calls have returned, uses and success are the number
\* of threads, in memory and in the persisted store.
C14_NoLostUpdate ==
    (/\ InThreads /\ AllDone
     /\ \A t \in Workers : pc[t].op = "mark_use" /\ pc[t].ok) =>
        /\ _tool_meta[Tool].uses = Cardinality(Workers)
        /\ _tool_meta[Tool].success = Cardinality(Workers)
        /\ META_FILE = FileOk(_tool_meta)

-----------------------------------------------------------------------------
(* C15 *)

\* the calls of the threads are one mark_use(name, true) at most and registrations
OneMarkUseTrue ==
    /\ Cardinality({t \in Workers : pc[t].op = "mark_use"}) <= 1
    /\ \A t \in Workers : pc[t].op = "mark_use" => pc[t].ok

\* C15: what a reader sees of the entry of a name while register and mark_use run is
\* never half of an update: the new callable comes with the description and signature
\* of its registration, and, while the only counting call is one mark_use(name, true)
\* on counters that were equal, uses and success are equal.
C15_NoHalfUpdatedEntry ==
    (InThreads /\ pc[Reader].at = "read") =>
        /\ pc[Reader].fn = NewFn =>
              (/\ pc[Reader].meta.desc = NewMeta.desc
               /\ pc[Reader].meta.signature = NewMeta.signature)
        /\ OneMarkUseTrue => pc[Reader].meta.uses = pc[Reader].meta.success

-----------------------------------------------------------------------------
(* main_self_evolving.py: call_tool; sandbox.py: run_in_sandbox.             *)
(* What the call of a tool does is an input: it returns, raises an exception *)
(* with a message, raises one whose str() is empty (raise ValueError(), a    *)
(* failed assert), raises SystemExit, or never returns.  The validator       *)
(* accepts a function that does any of these.  A write of tools_meta.json    *)
(* succeeds or raises OSError, which is an input too.                        *)

Behaviours == {"returns", "raises", "raises_empty", "exits", "hangs"}
\* what the built-in tool is taken to do: it returns, raises, or waits on the network
BehavioursOf(fn) ==
    IF fn.kind = "builtin" THEN {"returns", "raises", "hangs"} ELSE Behaviours

\* the timeout call_tool hands to run_in_sandbox, in seconds
SandboxTimeout == 15

\* run_in_sandbox(func, params, timeout): line 25 returns func(**params); no statement
\* after it is reached, and timeout is not read
run_in_sandbox(func, behaviour, timeout) == behaviour

\* what a caller gets: a returned value, an exception that left the call, or nothing
CallReturned(status, reason) == Raise("returned", <<status, reason>>)
CallPropagated(exc) == Raise("propagated", <<exc>>)
CallBlocked == Raise("blocked", <<>>)

\* _save_meta raised before the file changed: the memory is as the operation left it
WriteFails(before, after) == [after EXCEPT !.file = before.file]

\* mark_use(name, ok) when the write succeeds (w) or raises: [st, raised]
mark_use_io(st, name, ok, w) ==
    LET writes == name \in DOMAIN st.meta /\ st.meta[name] # EmptyDict
    IN  IF w \/ ~writes THEN [st |-> mark_use(st, name, ok), raised |-> FALSE]
        ELSE [st |-> WriteFails(st, mark_use(st, name, ok)), raised |-> TRUE]

\* register(name, func, meta) when the write succeeds (w) or raises: [st, raised]
register_io(st, name, func, meta, w) ==
    IF w THEN [st |-> register(st, name, func, meta), raised |-> FALSE]
    ELSE [st |-> WriteFails(st, register(st, name, func, meta)), raised |-> TRUE]

\* call_tool(name, params): [st, out, io].  w1 and w2 are the outcomes of the first
\* and the second write of tools_meta.json the call makes; io = "fail" if one raised.
call_tool(st, name, behaviour, w1, w2) ==
    LET func == get(st, name)
        ran == run_in_sandbox(func, behaviour, SandboxTimeout)
        counted == mark_use_io(st, name, TRUE, w1)
        failed == mark_use_io(st, name, FALSE, w1)
        recount == mark_use_io(counted.st, name, FALSE, w2)
        Out(s, o, io) == [st |-> s, out |-> o, io |-> io]
    IN  IF func = NoCallable THEN Out(st, CallReturned("error", "unknown tool"), "ok")
        ELSE IF ran = "hangs" THEN Out(st, CallBlocked, "ok")
        ELSE IF ran = "exits" THEN Out(st, CallPropagated("SystemExit"), "ok")
        ELSE IF ran = "returns" THEN
            IF ~counted.raised THEN Out(counted.st, CallReturned("success", ""), "ok")
            ELSE IF recount.raised THEN Out(recount.st, CallPropagated("OSError"), "fail")
            ELSE Out(recount.st, CallReturned("error", "first line"), "fail")
        ELSE IF failed.raised THEN Out(failed.st, CallPropagated("OSError"), "fail")
        ELSE IF ran = "raises_empty" THEN Out(failed.st, CallPropagated("IndexError"), "ok")
        ELSE Out(failed.st, CallReturned("error", "first line"), "ok")

\* the frame of the main thread: where it is, what the tool of the last call did,
\* whether a write of the last operation failed, the seconds it has waited
Host(at, behaviour, io, elapsed) ==
    [main |-> [at |-> at, behaviour |-> behaviour, io |-> io, elapsed |-> elapsed]]

\* tool_add.py edited by hand after its registration
RenamedStore == FileStem(Tool) :> RenamedFile(Tool)

\* The process after register_dynamic_tool(Tool, ...), and the process restarted after
\* tool_add.py was edited so that it defines no function add: the record of add is
\* loaded, the tool is not.
InvokeStarts ==
    {[st |-> Started.st, dir |-> Started.dir],
     [st |-> ImportRegistry(Started.st.file, RenamedStore), dir |-> RenamedStore]}

InitInvoke ==
    \E s \in InvokeStarts :
        /\ _tool_registry = s.st.reg
        /\ _tool_meta = s.st.meta
        /\ META_FILE = s.st.file
        /\ DYN_DIR = s.dir
        /\ cand = NoCand
        /\ last = Last("import", <<>>, FALSE, Pass)
        /\ tally = [n \in ToolNames |-> Tally(FALSE, 0, 0)]
        /\ pc = Host("ready", "none", "ok", 0)

IoOf(w) == IF w THEN "ok" ELSE "fail"

\* main_self_evolving.call_tool(name, params)
InvokeTool(name, behaviour, w1, w2) ==
    LET r == call_tool(Cur, name, behaviour, w1, w2)
    IN  /\ pc.main.at = "ready"
        /\ SumUses(_tool_meta, DOMAIN _tool_meta) < MaxUses
        /\ behaviour \in BehavioursOf(get(Cur, name))
        \* a second write is made only after the tool returned and the first write failed
        /\ (w1 \/ behaviour # "returns") => w2
        /\ Install(r.st)
        /\ last' = Last("call_tool", name, r.out = CallReturned("success", ""), r.out)
        /\ pc' = Host(IF r.out = CallBlocked THEN "line73"
                      ELSE IF r.out = CallPropagated("SystemExit") THEN "exited"
                      ELSE "ready",
                      behaviour, r.io, 0)
        /\ UNCHANGED <<DYN_DIR, cand, tally>>

\* a second passes while the tool called at line 73 has not returned
Tick ==
    /\ pc.main.at = "line73"
    /\ pc.main.elapsed <= SandboxTimeout
    /\ pc' = [pc EXCEPT !.main.elapsed = @ + 1]
    /\ UNCHANGED <<_tool_registry, _tool_meta, META_FILE, DYN_DIR, cand, last, tally>>

\* registry.mark_use(name, ok)
RecordUse(name, ok, w) ==
    LET r == mark_use_io(Cur, name, ok, w)
    IN  /\ pc.main.at = "ready"
        /\ SumUses(_tool_meta, DOMAIN _tool_meta) < MaxUses
        /\ Install(r.st)
        /\ last' = Last("mark_use", name, ok,
                        IF r.raised THEN CallPropagated("OSError") ELSE CallReturned("", ""))
        /\ pc' = Host("ready", "none", IoOf(~r.raised), 0)
        /\ UNCHANGED <<DYN_DIR, cand, tally>>

\* registry.register(Tool, NewFn, NewMeta)
Reregister(w) ==
    LET r == register_io(Cur, Tool, NewFn, NewMeta, w)
    IN  /\ pc.main.at = "ready"
        /\ Install(r.st)
        /\ last' = Last("register", Tool, FALSE,
                        IF r.raised THEN CallPropagated("OSError") ELSE CallReturned("", ""))
        /\ pc' = Host("ready", "none", IoOf(w), 0)
        /\ UNCHANGED <<DYN_DIR, cand, tally>>

\* registry.get(name)
Lookup(name) ==
    /\ pc.main.at = "ready"
    /\ last' = Last("get", name, FALSE, Verdict("returned", <<>>, get(Cur, name), NoSource))
    /\ pc' = Host("ready", "none", "ok", 0)
    /\ UNCHANGED <<_tool_registry, _tool_meta, META_FILE, DYN_DIR, cand, tally>>

\* the host process ends, also when a call has not returned or the tool made it
\* exit, and a new one imports registry.py
RestartHost ==
    /\ Install(ImportRegistry(META_FILE, DYN_DIR))
    /\ last' = Last("import", <<>>, FALSE, Pass)
    /\ pc' = Host("ready", "none", "ok", 0)
    /\ UNCHANGED <<DYN_DIR, cand, tally>>

NextInvoke ==
    \/ \E name \in ToolNames, behaviour \in Behaviours, w1 \in BOOLEAN, w2 \in BOOLEAN :
          InvokeTool(name, behaviour, w1, w2)
    \/ Tick
    \/ \E name \in ToolNames, ok \in BOOLEAN, w \in BOOLEAN : RecordUse(name, ok, w)
    \/ \E w \in BOOLEAN : Reregister(w)
    \/ \E name \in ToolNames : Lookup(name)
    \/ RestartHost
    \/ ListMeta
    \/ FormatTools

SpecInvoke == InitInvoke /\ [][NextInvoke]_vars

-----------------------------------------------------------------------------
(* C16 *)

InInvoke == "io" \in DOMAIN pc.main

\* C16: an operation during which a write of the metadata store fails does not raise
\* to its caller.
C16_PersistenceErrorsNonFatal ==
    (InInvoke /\ pc.main.io = "fail") => last.v.err = "returned"

-----------------------------------------------------------------------------
(* C17 *)

Raising == {"raises", "raises_empty", "exits"}

\* C17: a call of a registered tool in which the tool raises leaves the tool
\* registered with the same callable, its source file and its record in place, uses
\* one higher and success as it was.
C17_FailedCallCounted ==
    [][(/\ last'.op = "call_tool"
        /\ pc'.main.behaviour \in Raising
        /\ last'.name \in DOMAIN _tool_registry) =>
          LET n == last'.name
          IN  /\ n \in DOMAIN _tool_registry' /\ _tool_registry'[n] = _tool_registry[n]
              /\ DYN_DIR' = DYN_DIR
              /\ n \in DOMAIN _tool_meta'
              /\ _tool_meta'[n].uses = _tool_meta[n].uses + 1
              /\ _tool_meta'[n].success = _tool_meta[n].success]_vars

-----------------------------------------------------------------------------
(* C18 *)

\* C18: whatever the tool of a call does short of never returning, and whether or not
\* the recording of its use fails, call_tool returns to its caller, the host goes on,
\* and when the tool raised or asked for the process to exit the value returned is the
\* failure result: status "error" and a one-line reason.
C18_FailureRecovered ==
    (InInvoke /\ last.op = "call_tool" /\ pc.main.behaviour # "hangs") =>
        /\ last.v.err = "returned"
        /\ pc.main.at = "ready"
        /\ pc.main.behaviour \in Raising => last.v = CallReturned("error", "first line")

-----------------------------------------------------------------------------
(* C19 *)

\* C19: get, call_tool and mark_use on a name that is not in the catalog leave the
\* catalog, the metadata in memory, the persisted metadata and the source store as
\* they were (no write failing); get returns no callable, call_tool the
\* unknown-tool failure, and mark_use returns silently.
C19_UnknownNameChangesNothing ==
    [][(/\ last'.op \in {"get", "call_tool", "mark_use"}
        /\ pc'.main.io = "ok"
        /\ get(Cur, last'.name) = NoCallable) =>
          /\ UNCHANGED <<_tool_registry, _tool_meta, META_FILE, DYN_DIR>>
          /\ last'.v.err = "returned"
          /\ last'.op = "get" => last'.v.fn = NoCallable
          /\ last'.op = "call_tool" => last'.v = CallReturned("error", "unknown tool")]_vars

-----------------------------------------------------------------------------
(* C20 *)

\* C20: the caller of a built-in tool that does not return is not kept waiting beyond
\* the timeout handed to run_in_sandbox.
C20_BuiltinTimeoutBounded ==
    (/\ InInvoke /\ pc.main.at = "line73"
     /\ get(Cur, last.name).kind = "builtin") => pc.main.elapsed <= SandboxTimeout

-----------------------------------------------------------------------------
(* C21 *)

Formatted == InInvoke /\ last.op = "format_tools_for_prompt"
\* the text returned has an entry that is the record of n rendered with the label lbl
\* before its success counter
HasEntry(n, lbl) ==
    \E i \in 1..Len(last.v.what) :
        last.v.what[i] = <<n, _tool_meta[n].signature, " - ", _tool_meta[n].desc,
                           " uses=", _tool_meta[n].uses, lbl, _tool_meta[n].success>>
\* the entries come in the order of their names
EntriesInNameOrder ==
    \A i, j \in 1..Len(last.v.what) :
        i < j => NameRank(last.v.what[i][1]) < NameRank(last.v.what[j][1])

-----------------------------------------------------------------------------
(* Tools registered under names of every accepted shape: a plain name ("x"), *)
(* a name that holds the file-name prefix ("tool_x"), and the name of the    *)
(* built-in tool.  The validator accepts a function of any of these names.   *)

NameCases == {<<"x">>, <<PREFIX, "x">>, <<"fetch_waveforms">>}

NextNames ==
    \/ \E name \in NameCases : RegisterDynamic(name, PlainSource(name), "d1")
    \/ \E name \in NameCases, ok \in BOOLEAN : MarkUse(name, ok)
    \/ Restart
    \/ \E name \in NameCases : DeleteSourceFile(FileStem(name))

SpecNames == Init /\ [][NextNames]_vars

-----------------------------------------------------------------------------
(* C22 *)

\* n was registered by register_dynamic_tool and its source file is as it was written
RegisteredIntact(n) ==
    /\ n \in DOMAIN _tool_registry /\ _tool_registry[n].kind = "dynamic"
    /\ FileStem(n) \in DOMAIN DYN_DIR
    /\ DYN_DIR[FileStem(n)] = FileContent(n, _tool_registry[n].src)

\* C22: a restart leaves every dynamic tool whose source file is intact in the
\* catalog, as the callable of its file, with a metadata record of origin dynamic;
\* this for a plain name, a name that holds the file-name prefix and the name of the
\* built-in tool alike.
C22_DynamicToolDurable ==
    [][last'.op = "import" =>
          \A n \in NameCases :
              RegisteredIntact(n) =>
                  /\ n \in DOMAIN _tool_registry'
                  /\ _tool_registry'[n] = ImportedFn(DYN_DIR[FileStem(n)])
                  /\ n \in DOMAIN _tool_meta'
                  /\ Get(_tool_meta'[n], "origin", "") = "dynamic"]_vars

-----------------------------------------------------------------------------
(* C24 *)

\* C24: at a restart the name derived from the stem of every tool file is the name
\* the file was written for, that name is in the catalog afterwards, and its
\* persisted record is not removed as an orphan; two names never share a file.
C24_NameFileRoundTrip ==
    [][last'.op = "import" =>
          /\ \A stem \in DOMAIN DYN_DIR :
                LET n == DYN_DIR[stem].header
                IN  /\ StemToName(stem) = n
                    /\ n \in DOMAIN _tool_registry'
                    /\ (META_FILE.state = "ok" /\ n \in DOMAIN META_FILE.data) =>
                          (META_FILE'.state = "ok" /\ n \in DOMAIN META_FILE'.data)
          /\ \A n1, n2 \in NameCases : FileStem(n1) = FileStem(n2) => n1 = n2]_vars

-----------------------------------------------------------------------------
(* C23 *)

\* the file of n is there and its import gives the function n
LoadsCorrectly(n) ==
    /\ FileStem(n) \in DOMAIN DYN_DIR
    /\ ModuleDefines(DYN_DIR[FileStem(n)], n)
    /\ ~ImportExits(DYN_DIR[FileStem(n)])
\* some file of the store does not load
SomeFileFails == \E n \in FileNames(DYN_DIR) : ~LoadsCorrectly(n)
\* the records the process found complete in the persisted store
FoundComplete ==
    IF pc.main.durable.state # "ok" THEN {}
    ELSE {n \in DOMAIN pc.main.durable.data :
              RecordFields \subseteq DOMAIN pc.main.durable.data[n]}

\* C23: when some tool files of the store fail to load, the start still completes
\* without raising, the built-in tool and every tool whose file loads correctly are
\* in the catalog afterwards, and the records of these tools are as the process
\* found them in the persisted store.
C23_FailingToolSkipped ==
    ("durable" \in DOMAIN pc.main /\ SomeFileFails) =>
        /\ pc.main.at # "aborted"
        /\ pc.main.at = "ready" =>
              /\ BUILTIN_TOOL_NAMES \subseteq DOMAIN _tool_registry
              /\ \A n \in DynNames : LoadsCorrectly(n) =>
                    /\ n \in DOMAIN _tool_registry
                    /\ n \in FoundComplete => _tool_meta[n] = pc.main.durable.data[n]
              /\ \A n \in BUILTIN_TOOL_NAMES \cap FoundComplete :
                    _tool_meta[n] = pc.main.durable.data[n]

-----------------------------------------------------------------------------
(* C25 *)

\* the last operation was the start of the process, register_dynamic_tool or
\* mark_use, and it returned normally
Quiescent ==
    /\ last.op \in {"import", "register_dynamic", "mark_use"}
    /\ last.op = "register_dynamic" => last.v.err = "ok"

\* C25: whenever the start of the process, register_dynamic_tool or mark_use has
\* returned normally, the persisted metadata store holds the names and the field
\* values of the metadata in memory.
C25_PersistedEqualsMemory ==
    Quiescent => (META_FILE.state = "ok" /\ META_FILE.data = _tool_meta)

-----------------------------------------------------------------------------
(* C26 *)

\* the source file of every dynamic tool that has a record is in the store
RecordedFilesPresent ==
    \A n \in DOMAIN _tool_meta :
        Get(_tool_meta[n], "origin", "") = "dynamic" => FileStem(n) \in DOMAIN DYN_DIR

\* C26: after the start and any sequence of register_dynamic_tool, mark_use and
\* restarts, with the file of every recorded dynamic tool in the store, each name
\* that has a metadata record in memory (each name list_meta and
\* format_tools_for_prompt show) has a callable in the catalog: get(name) is not the
\* absent marker.
C26_ListedToolsInvocable ==
    RecordedFilesPresent =>
        \A n \in DOMAIN _tool_meta : get(Cur, n) # NoCallable

\* after a restart the tool x is listed and callable, while the record of tool_x,
\* whose file does not load, is gone with its callable
C26_Witness ==
    /\ last.op = "import"
    /\ RecordedFilesPresent
    /\ <<"x">> \in DOMAIN _tool_meta /\ get(Cur, <<"x">>).kind = "dynamic"
    /\ FileStem(<<PREFIX, "x">>) \in DOMAIN DYN_DIR
    /\ <<PREFIX, "x">> \notin DOMAIN _tool_meta

-----------------------------------------------------------------------------
(* C27 *)

\* C27: after register_dynamic_tool on an empty store and any sequence of calls
\* through call_tool that succeed or fail, mark_use, register and restarts, every
\* metadata record has 0 <= success <= uses, a counter a record lacks counting as 0.
C27_SuccessAtMostUses ==
    InInvoke =>
        \A n \in DOMAIN _tool_meta :
            /\ 0 <= Get(_tool_meta[n], "success", 0)
            /\ Get(_tool_meta[n], "success", 0) <= Get(_tool_meta[n], "uses", 0)

\* a restart after a successful and a failed call of add
C27_Witness ==
    /\ InInvoke /\ last.op = "import"
    /\ Tool \in DOMAIN _tool_meta
    /\ _tool_meta[Tool].uses = 2 /\ _tool_meta[Tool].success = 1

-----------------------------------------------------------------------------
(* C28 *)

\* C28: when call_tool returns from the call of a registered tool, the tool's uses is
\* one higher than before the call, and its success is one higher if the tool
\* returned normally and as before otherwise, also when a write of the metadata
\* store failed during the call.
C28_CountedExactlyOnce ==
    [][(/\ last'.op = "call_tool" /\ last'.v.err = "returned"
        /\ last'.name \in DOMAIN _tool_registry) =>
          LET n == last'.name
          IN  /\ n \in DOMAIN _tool_meta /\ n \in DOMAIN _tool_meta'
              /\ _tool_meta'[n].uses = _tool_meta[n].uses + 1
              /\ _tool_meta'[n].success =
                    _tool_meta[n].success + IF pc'.main.behaviour = "returns" THEN 1 ELSE 0]_vars

-----------------------------------------------------------------------------
(* parser.py: register_dynamic_tool when one of its steps after validation   *)
(* raises: path.write_text (line 166), importlib.import_module (line 174) or *)
(* the write of tools_meta.json inside registry.register (line 186).  Which  *)
(* step fails, if any, is an input.                                          *)

FailSteps == {"none", "write_source", "import", "save"}

\* The outcome of register_dynamic_tool(name, code, desc): [v, st, dir]; v is the
\* validator's verdict, or the error of the step that failed.
register_dynamic_tool_io(st, dir, name, code, desc, fail) ==
    LET v == extract_function(code, name)
        dir2 == Put(dir, FileStem(name), FileContent(name, v.src))
        real_fn == ImportedFn(dir2[FileStem(name)])
        sig == ModuleDef(dir2[FileStem(name)], name).sig
        done == register(st, name, real_fn, DynamicMeta(desc, sig, name))
    IN  IF v.err # "ok" THEN [v |-> v, st |-> st, dir |-> dir]
        ELSE IF fail = "write_source"
            THEN [v |-> Raise("OSError", <<"write_source">>), st |-> st, dir |-> dir]
        ELSE IF fail = "import"
            THEN [v |-> Raise("ImportError", <<"import">>), st |-> st, dir |-> dir2]
        ELSE IF fail = "save"
            THEN [v |-> Raise("OSError", <<"save">>), st |-> WriteFails(st, done), dir |-> dir2]
        ELSE [v |-> [v EXCEPT !.fn = real_fn], st |-> done, dir |-> dir2]

\* interactive(), lines 152-153 and 177-178: register_dynamic_tool(name, code, desc)
\* inside try ... except Exception
ProposeTool(name, code, desc, fail) ==
    LET r == register_dynamic_tool_io(Cur, DYN_DIR, name, code, desc, fail)
    IN  /\ Install(r.st)
        /\ DYN_DIR' = r.dir
        /\ cand' = Cand(name, code, desc)
        /\ last' = Last("register_dynamic", name, FALSE, r.v)
        /\ UNCHANGED <<tally, pc>>

NextPropose ==
    \/ \E name \in DynNames, fail \in FailSteps :
          \E code \in ValidSources(name) \cup {ProcessSource(name)} :
              ProposeTool(name, code, "d1", fail)
    \/ Restart

SpecPropose == Init /\ [][NextPropose]_vars

\* with no failing step the outcome is that of register_dynamic_tool
ProposeAgrees ==
    \A name \in DynNames : \A code \in ValidSources(name) \cup {ProcessSource(name)} :
        register_dynamic_tool_io(Cur, DYN_DIR, name, code, "d1", "none")
            = register_dynamic_tool(Cur, DYN_DIR, name, code, "d1")

-----------------------------------------------------------------------------
(* C29 *)

\* C29: when register_dynamic_tool raises at a step after validation (the write of
\* the source file, the import of the written module, the write of the metadata),
\* the catalog, the metadata in memory, the persisted metadata and the source store
\* are as before the call.
C29_FailedRegistrationChangesNothing ==
    [][(last'.op = "register_dynamic" /\ last'.v.err \in {"OSError", "ImportError"}) =>
          UNCHANGED <<_tool_registry, _tool_meta, META_FILE, DYN_DIR>>]_vars

-----------------------------------------------------------------------------
(* main_self_evolving.py: interactive().  One action is one pass of the loop *)
(* from input() to the continue or the end of the body that ends it.  What   *)
(* the language model answers (use_tool, propose_tool, a fix, anything else) *)
(* and what a called tool does are inputs.  history is a local variable of   *)
(* interactive(); an entry is (role, text), the text modelled by the number  *)
(* of the turn it was said in.  last.op is the way the last turn went.       *)

\* the rounds of context the loop is meant to keep
MAX_TURNS == 6

\* the turns of one conversation the model follows
MaxDialogTurns == 8

\* the frame of interactive(): the line it is at, history, the turns begun
Dialog(at, history, turn) ==
    [main |-> [at |-> at, history |-> history, turn |-> turn]]

\* lines 203-204: if len(history) > MAX_TURNS * 2: history = history[-MAX_TURNS*2:]
Trimmed(history) ==
    IF Len(history) > MAX_TURNS * 2
    THEN SubSeq(history, Len(history) - MAX_TURNS * 2 + 1, Len(history))
    ELSE history

\* The frame after the turn ended in one of four ways: "used", the reply of a tool
\* was appended and the loop continued (lines 141-142, 166-167, 189-190); "answer",
\* the body ran to its end (lines 199-204); "blocked", the tool called has not
\* returned; "exited", an exception left interactive() and its frame is gone.
Reached(end) ==
    LET k == pc.main.turn + 1
        \* history.append(("user", q)); history.append(("assistant", reply))
        said == pc.main.history \o <<<<"user", k>>, <<"assistant", k>>>>
    IN  IF end = "used" THEN Dialog("line119", said, k)
        ELSE IF end = "answer" THEN Dialog("line119", Trimmed(said), k)
        ELSE IF end = "blocked" THEN Dialog("line73", pc.main.history, k)
        ELSE Dialog("exited", <<>>, k)

\* Lines 145-197, the turn of a complete propose_tool: the set of its one outcome
\* [st, dir, end, fixed].  code is the proposal, fix the code of the repaired
\* proposal (NoSource: the answer to the fix prompt is no propose_tool), uses whether
\* the second decision is use_tool, behaviour what the registered tool does when it
\* is called.  Both try blocks catch Exception ("raised"): an exception of the first
\* registration or of the call at line 163 leads to the fix prompt, one of the second
\* registration or of the call at line 185 to the plain answer; SystemExit is no
\* Exception.
propose_turn(st, dir, name, code, fix, desc, uses, behaviour) ==
    LET End(s, d, end, fixed) == [st |-> s, dir |-> d, end |-> end, fixed |-> fixed]
        \* lines 157-170, 180-192: the second decision after the registration reg
        Decided(reg, fixed) ==
            IF ~uses THEN {End(reg.st, reg.dir, "answer", fixed)}
            ELSE {IF c.out = CallBlocked THEN End(c.st, reg.dir, "blocked", fixed)
                  ELSE IF c.out = CallPropagated("SystemExit")
                      THEN End(c.st, reg.dir, "exited", fixed)
                  ELSE IF c.out.err = "propagated" THEN End(c.st, reg.dir, "raised", fixed)
                  ELSE End(c.st, reg.dir, "used", fixed) :
                      c \in {call_tool(reg.st, name, behaviour, TRUE, TRUE)}}
        \* lines 152-170, 177-192: one try block
        Tried(s, d, src, fixed) ==
            UNION {IF reg.v.err # "ok" THEN {End(s, d, "raised", fixed)}
                   ELSE Decided(reg, fixed) :
                       reg \in {register_dynamic_tool(s, d, name, src, desc)}}
    IN  UNION {IF e1.end # "raised" THEN {e1}
               ELSE IF fix = NoSource THEN {End(e1.st, e1.dir, "answer", TRUE)}
               ELSE {IF e2.end = "raised" THEN End(e2.st, e2.dir, "answer", TRUE) ELSE e2 :
                         e2 \in Tried(e1.st, e1.dir, fix, TRUE)} :
                   e1 \in Tried(st, dir, code, FALSE)}

InitDialog ==
    LET st == ImportRegistry(FileMissing, EmptyDict)
    IN  /\ _tool_registry = st.reg
        /\ _tool_meta = st.meta
        /\ META_FILE = st.file
        /\ DYN_DIR = EmptyDict
        /\ cand = NoCand
        /\ last = Last("import", <<>>, FALSE, Pass)
        /\ tally = [n \in ToolNames |-> Tally(FALSE, 0, 0)]
        /\ pc = Dialog("line119", <<>>, 0)

\* lines 134-142: the model answers use_tool; no try encloses the call
TurnUseTool(name, behaviour) ==
    \E c \in {call_tool(Cur, name, behaviour, TRUE, TRUE)} :
        /\ pc.main.at = "line119"
        /\ pc.main.turn < MaxDialogTurns
        /\ behaviour \in BehavioursOf(get(Cur, name))
        /\ Install(c.st)
        /\ last' = Last("use_tool", name, c.out = CallReturned("success", ""), Pass)
        /\ pc' = Reached(IF c.out = CallBlocked THEN "blocked"
                         ELSE IF c.out.err = "propagated" THEN "exited"
                         ELSE "used")
        /\ UNCHANGED <<DYN_DIR, cand, tally>>

\* lines 145-197: the model answers propose_tool with a name and code
TurnProposeTool(name, code, fix, desc, uses, behaviour) ==
    \E r \in propose_turn(Cur, DYN_DIR, name, code, fix, desc, uses, behaviour) :
        /\ pc.main.at = "line119"
        /\ pc.main.turn < MaxDialogTurns
        /\ Install(r.st)
        /\ DYN_DIR' = r.dir
        /\ last' = Last(IF r.fixed THEN "fix" ELSE "propose_tool", name, r.end = "used", Pass)
        /\ pc' = Reached(r.end)
        /\ UNCHANGED <<cand, tally>>

\* lines 199-204: any other answer of the model, an incomplete propose_tool included
TurnAnswer ==
    /\ pc.main.at = "line119"
    /\ pc.main.turn < MaxDialogTurns
    /\ last' = Last("answer", <<>>, FALSE, Pass)
    /\ pc' = Reached("answer")
    /\ UNCHANGED <<_tool_registry, _tool_meta, META_FILE, DYN_DIR, cand, tally>>

\* lines 120-125: end of input, or the user types exit or quit
Leave ==
    /\ pc.main.at = "line119"
    /\ last' = Last("leave", <<>>, FALSE, Pass)
    /\ pc' = Dialog("exited", <<>>, pc.main.turn)
    /\ UNCHANGED <<_tool_registry, _tool_meta, META_FILE, DYN_DIR, cand, tally>>

NextDialog ==
    \/ \E behaviour \in Behaviours : TurnUseTool(Tool, behaviour)
    \/ \E code \in {PlainSource(Tool), ProcessSource(Tool)} :
          \E fix \in {NoSource, PlainSource(Tool)} :
              \E uses \in BOOLEAN, behaviour \in Behaviours :
                  TurnProposeTool(Tool, code, fix, "d1", uses, behaviour)
    \/ TurnAnswer
    \/ Leave

SpecDialog == InitDialog /\ [][NextDialog]_vars

-----------------------------------------------------------------------------
(* C30 *)

\* C30: after every completed turn of the interactive loop, whichever way the turn
\* ended (tool use, tool proposal followed by tool use, fix followed by tool use,
\* plain answer), history holds at most 2 * MAX_TURNS entries.
C30_HistoryBounded ==
    pc.main.at = "line119" => Len(pc.main.history) <= 2 * MAX_TURNS

====
